---- MODULE Spec2Model ----
(***************************************************************************)
(* Model of the BackstageIt lifecycle coordinator (src/src/index.ts):      *)
(* the static server / database handles, setUp, destroy, serverPort and    *)
(* serverAddress.  External collaborators (the database client, the       *)
(* caller's server factory, the post-setup callback, http.Server.close)    *)
(* settle nondeterministically.  An async method is one action per run of  *)
(* code between two awaits.                                                *)
(***************************************************************************)
EXTENDS Integers, Sequences, FiniteSets, TLC

\* ---------------------------------------------------------------- bounds
MaxCalls == 3            \* setUp / destroy calls in one behaviour
MaxLiveCalls == 2        \* the same, in the behaviours checked for liveness

\* ------------------------------------------------------------- constants
Unset == 0                                   \* an undefined static field / handle
NaN == 0 - 1                                 \* Number() of a non-numeric string
AddressPrefix == "http://127.0.0.1:"
NotRunning == "Test server not running"
TypeErr == "TypeError"                       \* property access on undefined
CloseErr == "ERR_SERVER_NOT_RUNNING"         \* http.Server.close on a closed server
NoErr == "none"
Errors == {"E1", "E2"}                       \* rejections of the collaborators
EphemeralPorts == {49152, 49153}             \* ports the OS may pick for port 0
Digits == <<"0", "1", "2", "3", "4", "5", "6", "7", "8", "9">>

\* values of process.env.BACKSTAGE_IT_PORT: absent, or a string (a sequence
\* of characters)
EnvAbsent == [set |-> FALSE, val |-> <<>>]
EnvValues ==
    { EnvAbsent,
      [set |-> TRUE, val |-> <<>>],
      [set |-> TRUE, val |-> <<"4", "3", "2", "1">>],
      [set |-> TRUE, val |-> <<"x">>] }

\* TestServerConfig: which optional fields are present
AllConfigs ==
    [database : BOOLEAN, server : BOOLEAN, afterSetup : BOOLEAN,
     config : BOOLEAN, logLevel : {"undefined", "info"}]

\* the configurations setUp is called with: every combination of database,
\* server and afterSetup; a backend config and a log level are given, both or
\* neither, to the configurations that use them
Configs ==
    { c \in AllConfigs :
        /\ c.config = (c.logLevel # "undefined")
        /\ c.config => (c.database /\ c.server) }

VARIABLES
    server,      \* BackstageIt.server: Unset or an index into servers
    database,    \* BackstageIt.database: Unset or an index into databases
    servers,     \* servers[h]: the port server h is bound to, 0 when not listening
    databases,   \* databases[h]: [store, migrated, destroys] of client h
    env,         \* process.env.BACKSTAGE_IT_PORT
    pc,          \* position of the running setUp / destroy call, "idle" if none
    cfg,         \* the configuration of the current / most recent setUp
    logger,      \* the logger built by this call
    pending,     \* the client createStore is migrating
    closeErr,    \* the error the pending server.close will report
    options,     \* the ServerOptions given to the server factory by this call
    context,     \* the ServerContext given to afterSetup by this call
    result,      \* outcome of the current / most recent setUp or destroy
    trace,       \* what the current / most recent call did, in order
    pre,         \* BackstageIt.server / database when the call started
    query,       \* what the serverPort / serverAddress call of this step returned
    lastSetUp,   \* how the most recent setUp ended, and the destroy calls since
    calls        \* number of setUp / destroy calls so far

vars == <<server, database, servers, databases, env, pc, cfg, logger, pending,
          closeErr, options, context, result, trace, pre, query, lastSetUp,
          calls>>

\* ---------------------------------------------------------------- helpers
NoCfg ==
    [database |-> FALSE, server |-> FALSE, afterSetup |-> FALSE,
     config |-> FALSE, logLevel |-> "undefined"]

NoLogger == [service |-> "", platform |-> "", level |-> ""]

NoOptions ==
    [given |-> FALSE, port |-> 0, logger |-> NoLogger, enableCors |-> FALSE,
     optionalConfig |-> FALSE, optionalDatabase |-> Unset]

NoContext ==
    [given |-> FALSE, logger |-> NoLogger, port |-> 0, address |-> <<>>,
     server |-> Unset, database |-> Unset]

NoQuery == [op |-> "none", ok |-> FALSE, err |-> NoErr, port |-> 0, addr |-> <<>>]

Ev(name, h, e) == [ev |-> name, h |-> h, err |-> e]

RECURSIVE DigitValue(_, _)
DigitValue(c, i) ==
    IF i > Len(Digits) THEN NaN
    ELSE IF Digits[i] = c THEN i - 1
    ELSE DigitValue(c, i + 1)

\* Number(s) for the strings of EnvValues: 0 for the empty string, the integer
\* for a string of decimal digits, NaN for a string with another character
RECURSIVE NumberFrom(_, _, _)
NumberFrom(s, i, acc) ==
    IF i > Len(s) THEN acc
    ELSE IF DigitValue(s[i], 1) = NaN THEN NaN
    ELSE NumberFrom(s, i + 1, acc * 10 + DigitValue(s[i], 1))

Number(s) == NumberFrom(s, 1, 0)

\* a string is truthy when it is present and not empty
Truthy(e) == e.set /\ Len(e.val) > 0

PortFromEnv_zero(e) == 0

\* index.ts 72-74
PortFromEnv(e) == IF Truthy(e) THEN Number(e.val) ELSE 0

\* index.ts 118-137
createLogger(service, platform, logLevel) ==
    [service |-> service, platform |-> platform,
     level |-> IF logLevel = "undefined" THEN "debug" ELSE logLevel]

ServerPortOf_never(s, ss) ==
    IF s = Unset THEN [ok |-> FALSE, err |-> TypeErr, port |-> 0]
    ELSE [ok |-> FALSE, err |-> NotRunning, port |-> 0]

ServerPortOf_unguarded(s, ss) ==
    IF s = Unset THEN [ok |-> TRUE, err |-> NoErr, port |-> 0]
    ELSE IF ss[s] = 0 THEN [ok |-> FALSE, err |-> NotRunning, port |-> 0]
    ELSE [ok |-> TRUE, err |-> NoErr, port |-> ss[s]]

\* index.ts 180-186: the outcome of serverPort() when BackstageIt.server is s
\* and the servers are ss
ServerPortOf(s, ss) ==
    IF s = Unset THEN [ok |-> FALSE, err |-> TypeErr, port |-> 0]
    ELSE IF ss[s] = 0 THEN [ok |-> FALSE, err |-> NotRunning, port |-> 0]
    ELSE [ok |-> TRUE, err |-> NoErr, port |-> ss[s]]

ServerAddressOf_localhost(s, ss) ==
    IF ServerPortOf(s, ss).ok
    THEN [ok |-> TRUE, err |-> NoErr,
          addr |-> <<"http://localhost:", ServerPortOf(s, ss).port>>]
    ELSE [ok |-> FALSE, err |-> ServerPortOf(s, ss).err, addr |-> <<>>]

\* index.ts 172-175
ServerAddressOf(s, ss) ==
    IF ServerPortOf(s, ss).ok
    THEN [ok |-> TRUE, err |-> NoErr,
          addr |-> <<AddressPrefix, ServerPortOf(s, ss).port>>]
    ELSE [ok |-> FALSE, err |-> ServerPortOf(s, ss).err, addr |-> <<>>]

Resolved(op) == [op |-> op, status |-> "resolved", err |-> NoErr]
Rejected(op, e) == [op |-> op, status |-> "rejected", err |-> e]
Pending(op) == [op |-> op, status |-> "pending", err |-> NoErr]

serverPort == ServerPortOf(server, servers)
serverAddress == ServerAddressOf(server, servers)

Init ==
    /\ server = Unset
    /\ database = Unset
    /\ servers = <<>>
    /\ databases = <<>>
    /\ env = EnvAbsent
    /\ pc = "idle"
    /\ cfg = NoCfg
    /\ logger = NoLogger
    /\ pending = Unset
    /\ closeErr = NoErr
    /\ options = NoOptions
    /\ context = NoContext
    /\ result = [op |-> "none", status |-> "none", err |-> NoErr]
    /\ trace = <<>>
    /\ pre = [server |-> Unset, database |-> Unset]
    /\ query = NoQuery
    /\ lastSetUp = [status |-> "none", destroys |-> 0]
    /\ calls = 0

\* ------------------------------------------------------------------ setUp
OptionalDatabase_none(c, db) == Unset

\* index.ts 81: the database handed to the server factory
OptionalDatabase(c, db) == IF c.database THEN db ELSE Unset

\* index.ts 147-154: the store createStore connects to
DatabaseConfig(c) == IF c.config THEN "backend.database" ELSE "memory"

ServerStep_noAwait(c, tr, db) ==
    IF c.server
    THEN /\ logger' = createLogger("svc", "backstage", c.logLevel)
         /\ options' = [given |-> TRUE,
                        port |-> PortFromEnv(env),
                        logger |-> logger',
                        enableCors |-> FALSE,
                        optionalConfig |-> c.config,
                        optionalDatabase |-> OptionalDatabase(c, db)]
         /\ trace' = tr \o <<Ev("createLogger", Unset, NoErr),
                              Ev("server", Unset, NoErr)>>
         /\ pc' = "idle"
         /\ result' = Resolved("setUp")
    ELSE /\ logger' = NoLogger
         /\ options' = NoOptions
         /\ trace' = tr
         /\ pc' = "idle"
         /\ result' = Resolved("setUp")

\* index.ts 58-82, up to the await of the server factory; tr is what the call
\* did so far and db is BackstageIt.database at this point
ServerStep(c, tr, db) ==
    IF c.server
    THEN /\ logger' = createLogger("svc", "backstage", c.logLevel)
         /\ options' = [given |-> TRUE,
                        port |-> PortFromEnv(env),
                        logger |-> logger',
                        enableCors |-> FALSE,
                        optionalConfig |-> c.config,
                        optionalDatabase |-> OptionalDatabase(c, db)]
         /\ trace' = tr \o <<Ev("createLogger", Unset, NoErr),
                              Ev("server", Unset, NoErr)>>
         /\ pc' = "awaitServer"
         /\ result' = Pending("setUp")
    ELSE /\ logger' = NoLogger
         /\ options' = NoOptions
         /\ trace' = tr
         /\ pc' = "idle"
         /\ result' = Resolved("setUp")

\* index.ts 48-56: setUp is called and runs to its first await
SetUpCall(c) ==
    /\ pc = "idle"
    /\ query' = NoQuery
    /\ calls < MaxCalls
    /\ calls' = calls + 1
    /\ cfg' = c
    /\ pre' = [server |-> server, database |-> database]
    /\ context' = NoContext
    /\ pending' = Unset
    /\ IF c.database
       THEN /\ trace' = <<Ev("createStore", Unset, NoErr)>>
            /\ pc' = "awaitGetClient"
            /\ result' = Pending("setUp")
            /\ logger' = NoLogger
            /\ options' = NoOptions
       ELSE ServerStep(c, <<>>, database)
    /\ UNCHANGED <<server, database, servers, databases, env, closeErr>>
    /\ lastSetUp' = [status |-> result'.status, destroys |-> 0]

Reject(op, e) ==
    /\ pc' = "idle"
    /\ result' = Rejected(op, e)
    /\ trace' = Append(trace, Ev("reject", Unset, e))

\* index.ts 156-160: DatabaseManager...getClient() resolves, migrate.latest
\* is started
GetClientResolves ==
    /\ pc = "awaitGetClient"
    /\ query' = NoQuery
    /\ databases' = Append(databases, [store |-> DatabaseConfig(cfg),
                                       migrated |-> FALSE, destroys |-> 0])
    /\ pending' = Len(databases) + 1
    /\ pc' = "awaitMigrate"
    /\ trace' = trace \o <<Ev("getClient.ok", pending', NoErr),
                            Ev("migrate", pending', NoErr)>>
    /\ UNCHANGED <<server, database, servers, env, cfg, logger, closeErr,
                   options, context, result, pre, calls,
                   lastSetUp>>

GetClientRejects_retry(e) ==
    /\ pc = "awaitGetClient"
    /\ query' = NoQuery
    /\ IF Len(trace) < 2
       THEN /\ pc' = "awaitGetClient"
            /\ result' = result
            /\ trace' = Append(trace, Ev("createStore", Unset, NoErr))
       ELSE Reject("setUp", e)
    /\ UNCHANGED <<server, database, servers, databases, env, cfg, logger,
                   pending, closeErr, options, context, pre, calls>>
    /\ lastSetUp' = [lastSetUp EXCEPT !.status = result'.status]

\* index.ts 156-158 reject: createStore and setUp reject
GetClientRejects(e) ==
    /\ pc = "awaitGetClient"
    /\ query' = NoQuery
    /\ Reject("setUp", e)
    /\ UNCHANGED <<server, database, servers, databases, env, cfg, logger,
                   pending, closeErr, options, context, pre, calls>>
    /\ lastSetUp' = [lastSetUp EXCEPT !.status = result'.status]

\* index.ts 160-166, 51-82: the migration run resolves, createStore returns,
\* the client is stored and setUp goes on to the server step
MigrateResolves ==
    /\ pc = "awaitMigrate"
    /\ query' = NoQuery
    /\ databases' = [databases EXCEPT ![pending].migrated = TRUE]
    /\ database' = pending
    /\ pending' = Unset
    /\ ServerStep(cfg, trace \o <<Ev("migrate.ok", pending, NoErr),
                                  Ev("storeDatabase", pending, NoErr)>>,
                  database')
    /\ UNCHANGED <<server, servers, env, cfg, closeErr, context, pre,
                   calls>>
    /\ lastSetUp' = [lastSetUp EXCEPT !.status = result'.status]

\* index.ts 160-162 reject: the client stays open and is not stored
MigrateRejects(e) ==
    /\ pc = "awaitMigrate"
    /\ query' = NoQuery
    /\ pending' = Unset
    /\ Reject("setUp", e)
    /\ UNCHANGED <<server, database, servers, databases, env, cfg, logger,
                   closeErr, options, context, pre, calls>>
    /\ lastSetUp' = [lastSetUp EXCEPT !.status = result'.status]

RunsAfterSetup_never(c) == FALSE

\* index.ts 84: the post-setup callback runs when it is present (inside the
\* server branch)
RunsAfterSetup(c) == c.afterSetup

\* the ports a server asked to listen on port req can end up bound to: any
\* ephemeral port for 0, req itself otherwise, none for NaN
BoundPorts(req) ==
    IF req = 0 THEN EphemeralPorts
    ELSE IF req = NaN THEN {}
    ELSE {req}

\* index.ts 76-94: the server factory resolves with a server listening on
\* port p; the handle is stored and the post-setup callback is started
ServerResolves(p) ==
    /\ pc = "awaitServer"
    /\ query' = NoQuery
    /\ p \in BoundPorts(options.port)
    /\ servers' = Append(servers, p)
    /\ server' = Len(servers) + 1
    /\ IF RunsAfterSetup(cfg)
       THEN IF ServerPortOf(server', servers').ok
            THEN /\ context' = [given |-> TRUE,
                                logger |-> logger,
                                port |-> ServerPortOf(server', servers').port,
                                address |-> ServerAddressOf(server', servers').addr,
                                server |-> server',
                                database |-> database]
                 /\ pc' = "awaitAfterSetup"
                 /\ result' = result
                 /\ trace' = trace \o <<Ev("server.ok", server', NoErr),
                                         Ev("storeServer", server', NoErr),
                                         Ev("afterSetup", Unset, NoErr)>>
            ELSE /\ context' = context
                 /\ pc' = "idle"
                 /\ result' = Rejected("setUp", ServerPortOf(server', servers').err)
                 /\ trace' = trace \o <<Ev("server.ok", server', NoErr),
                                         Ev("storeServer", server', NoErr),
                                         Ev("reject", Unset,
                                            ServerPortOf(server', servers').err)>>
       ELSE /\ context' = context
            /\ pc' = "idle"
            /\ result' = Resolved("setUp")
            /\ trace' = trace \o <<Ev("server.ok", server', NoErr),
                                    Ev("storeServer", server', NoErr)>>
    /\ UNCHANGED <<database, databases, env, cfg, logger, pending, closeErr,
                   options, pre, calls>>
    /\ lastSetUp' = [lastSetUp EXCEPT !.status = result'.status]

ServerRejects_rollback(e) ==
    /\ pc = "awaitServer"
    /\ query' = NoQuery
    /\ Reject("setUp", e)
    /\ database' = pre.database
    /\ databases' = IF cfg.database
                    THEN [databases EXCEPT ![database].destroys = @ + 1]
                    ELSE databases
    /\ UNCHANGED <<server, servers, env, cfg, logger, pending, closeErr,
                   options, context, pre, calls>>
    /\ lastSetUp' = [lastSetUp EXCEPT !.status = result'.status]

\* index.ts 76 reject: setUp rejects, nothing is stored or rolled back
ServerRejects(e) ==
    /\ pc = "awaitServer"
    /\ query' = NoQuery
    /\ Reject("setUp", e)
    /\ UNCHANGED <<server, database, servers, databases, env, cfg, logger,
                   pending, closeErr, options, context, pre, calls>>
    /\ lastSetUp' = [lastSetUp EXCEPT !.status = result'.status]

\* index.ts 85-94: the post-setup callback resolves and setUp returns
AfterSetupResolves ==
    /\ pc = "awaitAfterSetup"
    /\ query' = NoQuery
    /\ pc' = "idle"
    /\ result' = Resolved("setUp")
    /\ trace' = Append(trace, Ev("afterSetup.ok", Unset, NoErr))
    /\ UNCHANGED <<server, database, servers, databases, env, cfg, logger,
                   pending, closeErr, options, context, pre, calls>>
    /\ lastSetUp' = [lastSetUp EXCEPT !.status = result'.status]

\* index.ts 85 reject
AfterSetupRejects(e) ==
    /\ pc = "awaitAfterSetup"
    /\ query' = NoQuery
    /\ Reject("setUp", e)
    /\ UNCHANGED <<server, database, servers, databases, env, cfg, logger,
                   pending, closeErr, options, context, pre, calls>>
    /\ lastSetUp' = [lastSetUp EXCEPT !.status = result'.status]

\* ---------------------------------------------------------------- destroy
Close_keep(ss, s) == ss

Close_all(ss, s) == [h \in DOMAIN ss |-> 0]

\* index.ts 101: server.close() stops server s listening at once
Close(ss, s) == [ss EXCEPT ![s] = 0]

DestroyCall_parallel ==
    /\ pc = "idle"
    /\ query' = NoQuery
    /\ calls < MaxCalls
    /\ calls' = calls + 1
    /\ pre' = [server |-> server, database |-> database]
    /\ logger' = NoLogger
    /\ options' = NoOptions
    /\ context' = NoContext
    /\ IF server = Unset
       THEN /\ pc' = "idle"
            /\ result' = Rejected("destroy", TypeErr)
            /\ trace' = <<Ev("reject", Unset, TypeErr)>>
            /\ UNCHANGED <<servers, closeErr, databases>>
       ELSE /\ pc' = "awaitClose"
            /\ result' = Pending("destroy")
            /\ trace' = IF database # Unset
                        THEN <<Ev("close", server, NoErr),
                               Ev("database.destroy", database, NoErr)>>
                        ELSE <<Ev("close", server, NoErr)>>
            /\ closeErr' = IF servers[server] = 0 THEN CloseErr ELSE NoErr
            /\ servers' = Close(servers, server)
            /\ databases' = IF database # Unset
                            THEN [databases EXCEPT ![database].destroys = @ + 1]
                            ELSE databases
    /\ UNCHANGED <<server, database, env, cfg, pending>>
    /\ lastSetUp' = [lastSetUp EXCEPT !.destroys = @ + 1]

\* index.ts 99-105: destroy is called; server.close(cb) is invoked inside the
\* promise executor (a TypeError there rejects the promise)
DestroyCall ==
    /\ pc = "idle"
    /\ query' = NoQuery
    /\ calls < MaxCalls
    /\ calls' = calls + 1
    /\ pre' = [server |-> server, database |-> database]
    /\ logger' = NoLogger
    /\ options' = NoOptions
    /\ context' = NoContext
    /\ IF server = Unset
       THEN /\ pc' = "idle"
            /\ result' = Rejected("destroy", TypeErr)
            /\ trace' = <<Ev("reject", Unset, TypeErr)>>
            /\ UNCHANGED <<servers, closeErr>>
       ELSE /\ pc' = "awaitClose"
            /\ result' = Pending("destroy")
            /\ trace' = <<Ev("close", server, NoErr)>>
            /\ closeErr' = IF servers[server] = 0 THEN CloseErr ELSE NoErr
            /\ servers' = Close(servers, server)
    /\ UNCHANGED <<server, database, databases, env, cfg, pending>>
    /\ lastSetUp' = [lastSetUp EXCEPT !.destroys = @ + 1]

\* index.ts 101-104: what destroy does with the error the close callback
\* is called with
CloseOutcome(err) == NoErr

\* index.ts 101-110: the close callback runs, the promise resolves, and the
\* database is destroyed when the handle is set
CloseCallback ==
    /\ pc = "awaitClose"
    /\ query' = NoQuery
    /\ closeErr' = NoErr
    /\ IF CloseOutcome(closeErr) # NoErr
       THEN /\ pc' = "idle"
            /\ result' = Rejected("destroy", CloseOutcome(closeErr))
            /\ trace' = trace \o <<Ev("close.cb", server, closeErr),
                                    Ev("reject", Unset, CloseOutcome(closeErr))>>
            /\ UNCHANGED databases
       ELSE IF database # Unset
            THEN /\ pc' = "awaitDbDestroy"
                 /\ result' = result
                 /\ databases' = [databases EXCEPT ![database].destroys = @ + 1]
                 /\ trace' = trace \o <<Ev("close.cb", server, closeErr),
                                         Ev("database.destroy", database, NoErr)>>
            ELSE /\ pc' = "idle"
                 /\ result' = Resolved("destroy")
                 /\ trace' = Append(trace, Ev("close.cb", server, closeErr))
                 /\ UNCHANGED databases
    /\ UNCHANGED <<server, database, servers, env, cfg, logger, pending,
                   options, context, pre, calls,
                   lastSetUp>>

\* index.ts 109-111: database.destroy() resolves and destroy returns
DbDestroyResolves ==
    /\ pc = "awaitDbDestroy"
    /\ query' = NoQuery
    /\ pc' = "idle"
    /\ result' = Resolved("destroy")
    /\ trace' = Append(trace, Ev("database.destroy.ok", database, NoErr))
    /\ UNCHANGED <<server, database, servers, databases, env, cfg, logger,
                   pending, closeErr, options, context, pre, calls,
                   lastSetUp>>

\* index.ts 109 reject
DbDestroyRejects(e) ==
    /\ pc = "awaitDbDestroy"
    /\ query' = NoQuery
    /\ Reject("destroy", e)
    /\ UNCHANGED <<server, database, servers, databases, env, cfg, logger,
                   pending, closeErr, options, context, pre, calls,
                   lastSetUp>>

\* ---------------------------------------------------------------- queries
\* index.ts 180-186
ServerPortCall ==
    /\ query' = [op |-> "serverPort", ok |-> serverPort.ok, err |-> serverPort.err,
                 port |-> serverPort.port, addr |-> <<>>]
    /\ UNCHANGED <<server, database, servers, databases, env, pc, cfg, logger,
                   pending, closeErr, options, context, result, trace, pre,
                   calls,
                   lastSetUp>>

\* index.ts 172-175
ServerAddressCall ==
    /\ query' = [op |-> "serverAddress", ok |-> serverAddress.ok,
                 err |-> serverAddress.err, port |-> 0,
                 addr |-> serverAddress.addr]
    /\ UNCHANGED <<server, database, servers, databases, env, pc, cfg, logger,
                   pending, closeErr, options, context, result, trace, pre,
                   calls,
                   lastSetUp>>

\* the test process sets or deletes process.env.BACKSTAGE_IT_PORT
SetEnv(e) ==
    /\ pc = "idle"
    /\ e # env
    /\ query' = NoQuery
    /\ env' = e
    /\ UNCHANGED <<server, database, servers, databases, pc, cfg, logger,
                   pending, closeErr, options, context, result, trace, pre,
                   calls,
                   lastSetUp>>

Next ==
    \/ \E c \in Configs : SetUpCall(c)
    \/ GetClientResolves
    \/ \E e \in Errors : GetClientRejects(e)
    \/ MigrateResolves
    \/ \E e \in Errors : MigrateRejects(e)
    \/ \E p \in EphemeralPorts \cup {options.port} : ServerResolves(p)
    \/ \E e \in Errors : ServerRejects(e)
    \/ AfterSetupResolves
    \/ \E e \in Errors : AfterSetupRejects(e)
    \/ DestroyCall
    \/ CloseCallback
    \/ DbDestroyResolves
    \/ \E e \in Errors : DbDestroyRejects(e)
    \/ ServerPortCall
    \/ ServerAddressCall
    \/ \E e \in EnvValues : SetEnv(e)

Spec == Init /\ [][Next]_vars

\* the collaborators setUp awaits settle: the database client and its
\* migration run, the server factory, the post-setup callback
StoreSettles ==
    \/ GetClientResolves
    \/ \E e \in Errors : GetClientRejects(e)
    \/ MigrateResolves
    \/ \E e \in Errors : MigrateRejects(e)

ServerSettles ==
    \/ \E p \in EphemeralPorts \cup {options.port} : ServerResolves(p)
    \/ \E e \in Errors : ServerRejects(e)

AfterSetupSettles ==
    \/ AfterSetupResolves
    \/ \E e \in Errors : AfterSetupRejects(e)

LiveNext == Next /\ calls' <= MaxLiveCalls

\* the behaviours in which every collaborator setUp awaits settles
FairSpec ==
    /\ Init
    /\ [][LiveNext]_vars
    /\ WF_vars(StoreSettles)
    /\ WF_vars(ServerSettles)
    /\ WF_vars(AfterSetupSettles)

TypeOK ==
    /\ server \in 0..Len(servers)
    /\ database \in 0..Len(databases)
    /\ pc \in {"idle", "awaitGetClient", "awaitMigrate", "awaitServer",
               "awaitAfterSetup", "awaitClose", "awaitDbDestroy"}
    /\ cfg \in Configs
    /\ calls \in 0..MaxCalls

\* ----------------------------------------------------------------- claims
\* position of the first event called name in the trace of the call, 0 if none
RECURSIVE PosFrom(_, _)
PosFrom(name, i) ==
    IF i > Len(trace) THEN 0
    ELSE IF trace[i].ev = name THEN i
    ELSE PosFrom(name, i + 1)

Pos(name) == PosFrom(name, 1)

\* number of events called name in the trace of the call
Count(name) == Cardinality({i \in 1..Len(trace) : trace[i].ev = name})

Before(a, b) == Pos(a) # 0 /\ Pos(a) < Pos(b)

InSetUp == result.op = "setUp"
InDestroy == result.op = "destroy"
SetUpResolved == result = Resolved("setUp")
Done == pc = "idle"

\* C1: in a setUp whose configuration has a database spec and a server
\* factory, the store is created, migrated and stored before the server
\* factory is invoked, the factory is given that handle as optionalDatabase,
\* and the post-setup callback is invoked only after the factory resolved and
\* the server handle was stored.
C1_StepsInOrder ==
    (InSetUp /\ cfg.database /\ cfg.server) =>
        /\ pc \in {"awaitGetClient", "awaitMigrate"} =>
               /\ ~options.given
               /\ Count("server") = 0
               /\ database = pre.database
        /\ Count("server") # 0 =>
               /\ Before("createStore", "getClient.ok")
               /\ Before("getClient.ok", "migrate.ok")
               /\ Before("migrate.ok", "storeDatabase")
               /\ Before("storeDatabase", "server")
               /\ trace[Pos("storeDatabase")].h = trace[Pos("getClient.ok")].h
               /\ database = trace[Pos("storeDatabase")].h
               /\ databases[database].migrated
               /\ options.given
               /\ options.optionalDatabase = database
        /\ pc = "awaitServer" =>
               /\ ~context.given
               /\ Count("afterSetup") = 0
               /\ server = pre.server
        /\ Count("afterSetup") # 0 =>
               /\ Before("server", "server.ok")
               /\ Before("server.ok", "storeServer")
               /\ Before("storeServer", "afterSetup")
               /\ server = trace[Pos("storeServer")].h
               /\ context.given
               /\ context.server = server

C1_Witness ==
    /\ InSetUp /\ cfg.database /\ cfg.server /\ cfg.afterSetup
    /\ pc = "awaitAfterSetup"
    /\ options.optionalDatabase = database
    /\ database # Unset

\* C2 as stated: every setUp that has a post-setup callback and resolves has
\* invoked the callback exactly once, with or without a server factory.
C2_CallbackAlwaysInvoked ==
    (SetUpResolved /\ cfg.afterSetup) =>
        /\ Count("afterSetup") = 1
        /\ context.given

\* C2 amended: a setUp that has a post-setup callback and a server factory
\* and resolves has invoked the callback exactly once with the Server
\* Context; a setUp without a server factory never invokes the callback.
C2_CallbackInvokedWithServer ==
    /\ (SetUpResolved /\ cfg.afterSetup /\ cfg.server) =>
           /\ Count("afterSetup") = 1
           /\ context.given
           /\ context.server = server
           /\ context.database = database
           /\ context.logger = logger
    /\ (InSetUp /\ ~cfg.server) =>
           /\ Count("afterSetup") = 0
           /\ ~context.given
    /\ InSetUp => Count("afterSetup") <= 1

C2_Witness ==
    /\ SetUpResolved /\ cfg.afterSetup /\ cfg.server
    /\ Count("afterSetup") = 1
    /\ context.given

\* C3 as stated: database-only use from the initial state: setUp with a
\* database spec and no server factory stores the migrated handle, and the
\* following destroy() does not fail on its own account and destroys that
\* handle.
C3_DatabaseOnlyDestroy ==
    /\ (calls = 1 /\ SetUpResolved /\ cfg.database /\ ~cfg.server) =>
           /\ database # Unset
           /\ databases[database].migrated
    /\ (calls = 2 /\ InDestroy /\ Done /\ lastSetUp.status = "resolved"
            /\ cfg.database /\ ~cfg.server) =>
           /\ database # Unset
           /\ databases[database].destroys = 1
           /\ result.status = "rejected" => result.err \in Errors

\* C4 as stated: a setUp whose configuration has no database spec never
\* invokes the database-store factory and, when it has returned, the
\* database handle is unset, whatever happened before the call.
C4_NoDatabaseHandleUnset ==
    (InSetUp /\ ~cfg.database) =>
        /\ Count("createStore") = 0
        /\ Done => database = Unset

\* C5 as stated: a setUp whose configuration has no server factory invokes
\* no server factory and builds no logger, and after it has returned
\* serverPort() and serverAddress() fail with "Test server not running".
C5_NoServerNotRunning ==
    (InSetUp /\ ~cfg.server) =>
        /\ Count("server") = 0
        /\ Count("createLogger") = 0
        /\ logger = NoLogger
        /\ Done =>
               /\ ~serverPort.ok /\ serverPort.err = NotRunning
               /\ ~serverAddress.ok /\ serverAddress.err = NotRunning

\* a destroy() was called after the most recent setUp, which had a server
\* factory and resolved
DestroyedAfterSetUp ==
    /\ lastSetUp.status = "resolved"
    /\ cfg.server
    /\ lastSetUp.destroys >= 1

\* C6: once destroy() has been called after a successful setUp with a server
\* factory, serverPort() fails with "Test server not running" until the next
\* setUp; and when that setUp had a database spec, the destroy() call that
\* follows it invokes the destroy operation of its database handle exactly
\* once.
C6_DestroyClosesServer ==
    /\ DestroyedAfterSetUp =>
           /\ ~serverPort.ok
           /\ serverPort.err = NotRunning
           /\ query.op = "serverPort" => (~query.ok /\ query.err = NotRunning)
    /\ (DestroyedAfterSetUp /\ cfg.database /\ lastSetUp.destroys = 1
            /\ pc # "awaitClose") =>
           /\ Count("database.destroy") = 1
           /\ trace[Pos("database.destroy")].h = database
           /\ databases[database].destroys = 1

C6_Witness ==
    /\ DestroyedAfterSetUp /\ cfg.database /\ lastSetUp.destroys = 1
    /\ result = Resolved("destroy")
    /\ query.op = "serverPort"
    /\ query.err = NotRunning

\* C7 as stated: when the most recent setUp had no database spec, destroy()
\* invokes no database destroy operation and does not fail for want of a
\* database handle, whatever setUp and destroy calls came before.
C7_NoDatabaseNoDestroy ==
    (InDestroy /\ lastSetUp.status # "none" /\ ~cfg.database) =>
        /\ Count("database.destroy") = 0
        /\ (result.status = "rejected" /\ result.err = TypeErr) => server = Unset

\* the server factory of the setUp that has just returned rejected
ServerRejected ==
    /\ InSetUp /\ Done
    /\ result.status = "rejected"
    /\ Count("server") = 1
    /\ Count("server.ok") = 0

\* C8: when the database step succeeded and the server factory rejects,
\* setUp rejects with that error, the handle opened by this call stays stored
\* and is not destroyed, the server handle is the one from before the call,
\* and the post-setup callback is not invoked.
C8_NoRollback ==
    (ServerRejected /\ cfg.database) =>
        /\ result.err \in Errors
        /\ trace[Len(trace)] = Ev("reject", Unset, result.err)
        /\ lastSetUp.status = "rejected"
        /\ database = trace[Pos("storeDatabase")].h
        /\ database = Len(databases)
        /\ database # pre.database
        /\ databases[database].destroys = 0
        /\ server = pre.server
        /\ Count("afterSetup") = 0
        /\ ~context.given

C8_Witness ==
    /\ ServerRejected /\ cfg.database /\ cfg.afterSetup
    /\ database # Unset
    /\ database # pre.database

\* C9: within one setUp the database-store factory, the server factory and
\* the post-setup callback are each invoked at most once; a rejection of one
\* of them ends the call at once, setUp rejecting with that same error, and
\* no later step is run.
C9_RejectionEndsSetUp ==
    InSetUp =>
        /\ Count("createStore") <= 1
        /\ Count("migrate") <= 1
        /\ Count("server") <= 1
        /\ Count("afterSetup") <= 1
        /\ Count("reject") <= 1
        /\ result.status = "rejected" <=> Count("reject") = 1
        /\ Count("reject") = 1 =>
               /\ Done
               /\ trace[Len(trace)].ev = "reject"
               /\ result = Rejected("setUp", trace[Len(trace)].err)
               /\ result.err \in Errors
        /\ (Count("reject") = 1 /\ cfg.database /\ Count("storeDatabase") = 0) =>
               /\ Count("server") = 0
               /\ Count("createLogger") = 0
               /\ Count("afterSetup") = 0
               /\ database = pre.database
               /\ server = pre.server
        /\ (Count("reject") = 1 /\ Count("server") = 1 /\ Count("server.ok") = 0) =>
               /\ Count("afterSetup") = 0
               /\ server = pre.server

C9_Witness ==
    /\ InSetUp /\ Done
    /\ cfg.database /\ cfg.server /\ cfg.afterSetup
    /\ Count("createStore") = 1
    /\ Count("storeDatabase") = 0
    /\ result.status = "rejected"
    /\ result.err \in Errors

\* the close callback of this destroy() was called with an error
CloseFailed ==
    \E i \in 1..Len(trace) : trace[i].ev = "close.cb" /\ trace[i].err # NoErr

\* database.destroy() was invoked by this destroy() and rejected
DbDestroyFailed ==
    /\ Count("database.destroy") = 1
    /\ Count("database.destroy.ok") = 0
    /\ Done

\* C10 as stated: destroy() rejects whenever closing the server or destroying
\* the database fails.
C10_TeardownFailurePropagates ==
    (InDestroy /\ Done /\ (CloseFailed \/ DbDestroyFailed)) =>
        result.status = "rejected"

\* C11: the port given to the server factory comes from the port-override
\* variable as it is when setUp reaches the server step: 0 when the variable
\* is absent or empty, the integer it spells when it is a string of digits
\* ("4321" gives 4321); enableCors is false.
C11_PortFromEnvironment ==
    (InSetUp /\ pc = "awaitServer") =>
        /\ options.given
        /\ options.enableCors = FALSE
        /\ ~env.set => options.port = 0
        /\ (env.set /\ env.val = <<>>) => options.port = 0
        /\ (env.set /\ env.val = <<"4", "3", "2", "1">>) => options.port = 4321

C11_Witness ==
    /\ InSetUp /\ pc = "awaitServer"
    /\ env.set
    /\ options.port = 4321

\* C12: after a setUp with a server factory and no port override has
\* resolved, serverPort() is the positive port the stored server is bound
\* to, serverAddress() is "http://127.0.0.1:" followed by that port, and the
\* post-setup callback was given these same two values.
C12_AddressAndPort ==
    (SetUpResolved /\ cfg.server /\ options.port = 0) =>
        /\ serverPort.ok
        /\ serverPort.port > 0
        /\ serverPort.port = servers[server]
        /\ serverAddress.ok
        /\ serverAddress.addr = <<AddressPrefix, servers[server]>>
        /\ query.op = "serverPort" => (query.ok /\ query.port = servers[server])
        /\ query.op = "serverAddress" =>
               (query.ok /\ query.addr = <<AddressPrefix, servers[server]>>)
        /\ cfg.afterSetup =>
               /\ context.given
               /\ context.port = servers[server]
               /\ context.address = <<AddressPrefix, servers[server]>>

C12_Witness ==
    /\ SetUpResolved /\ cfg.server /\ cfg.afterSetup /\ options.port = 0
    /\ context.port \in EphemeralPorts
    /\ query.op = "serverAddress"
    /\ query.addr = context.address

\* no setUp has been called yet
Uninitialized == lastSetUp.status = "none"

\* C13: before any setUp, destroy(), serverPort() and serverAddress() fail
\* and leave the server and database handles unset.
C13_FailsBeforeSetUp ==
    Uninitialized =>
        /\ server = Unset
        /\ database = Unset
        /\ ~serverPort.ok
        /\ ~serverAddress.ok
        /\ query.op # "none" => ~query.ok
        /\ InDestroy => (Done /\ result.status = "rejected")

C13_Witness ==
    /\ Uninitialized
    /\ InDestroy /\ result.status = "rejected"
    /\ query.op = "serverAddress" /\ ~query.ok
    /\ server = Unset

\* the most recent setUp resolved and destroy() has not been called since
Ready == lastSetUp.status = "resolved" /\ lastSetUp.destroys = 0

\* C14 as stated: every setUp that completes without error leaves the
\* coordinator READY, where serverPort() and serverAddress() succeed until
\* destroy is called.
C14_ResolvedSetUpIsReady ==
    Ready =>
        /\ serverPort.ok
        /\ serverAddress.ok

\* C14 amended: every setUp with a server factory that completes without
\* error leaves the coordinator READY, where serverPort() and serverAddress()
\* succeed until destroy is called; they fail before the first setUp and
\* after the destroy that follows.
C14_ResolvedServerSetUpIsReady ==
    /\ (Ready /\ cfg.server) =>
           /\ serverPort.ok
           /\ serverAddress.ok
           /\ query.op # "none" => query.ok
    /\ Uninitialized => (~serverPort.ok /\ ~serverAddress.ok)
    /\ DestroyedAfterSetUp => (~serverPort.ok /\ ~serverAddress.ok)

C14_Witness ==
    /\ Ready /\ cfg.server
    /\ query.op = "serverPort"
    /\ query.ok

\* C15: destroy() first closes the server, goes on only when the close
\* callback has run, then invokes database.destroy() when the database
\* handle is set, and returns only when that has settled too.
C15_DestroyOrder ==
    InDestroy =>
        /\ pc = "awaitClose" =>
               /\ result.status = "pending"
               /\ trace = <<Ev("close", server, NoErr)>>
               /\ Count("database.destroy") = 0
        /\ Count("database.destroy") # 0 =>
               /\ Before("close", "close.cb")
               /\ Before("close.cb", "database.destroy")
               /\ Count("database.destroy") = 1
               /\ database # Unset
        /\ pc = "awaitDbDestroy" =>
               /\ result.status = "pending"
               /\ Count("database.destroy") = 1
        /\ result = Resolved("destroy") =>
               /\ Count("close") = 1
               /\ Count("close.cb") = 1
               /\ servers[server] = 0
               /\ database # Unset =>
                      Before("database.destroy", "database.destroy.ok")
               /\ database = Unset => Count("database.destroy") = 0

C15_Witness ==
    /\ result = Resolved("destroy")
    /\ database # Unset
    /\ Count("database.destroy.ok") = 1

\* a step overwrites the stored server / database handle
OverwritesServer == server # Unset /\ server' # server
OverwritesDatabase == database # Unset /\ database' # database

\* what a step may do to the handles that are not, or no longer, stored
NeverClosedOnceOverwritten ==
    /\ \A h \in 1..Len(servers) :
           (h # server \/ OverwritesServer) => servers'[h] = servers[h]
    /\ \A h \in 1..Len(databases) :
           (h # database \/ OverwritesDatabase) =>
               databases'[h].destroys = databases[h].destroys
    /\ server' # server => server' > Len(servers)
    /\ database' # database => (database' = pending /\ database' > pre.database)

\* C16: a setUp that overwrites a stored server or database handle does not
\* close the previous one, an overwritten handle is never stored again, and
\* no step (of destroy in particular) closes a server or destroys a database
\* that is not the stored one: the overwritten handles are leaked.
C16_OverwrittenHandlesLeak == [][NeverClosedOnceOverwritten]_vars

C16_Witness ==
    /\ result = Resolved("destroy")
    /\ \E h \in 1..Len(servers) : h # server /\ servers[h] # 0
    /\ \E h \in 1..Len(databases) :
           /\ h # database
           /\ databases[h].migrated
           /\ databases[h].destroys = 0
    /\ database # Unset
    /\ databases[database].destroys = 1

\* collaborator calls this setUp has made, and those that have resolved
Invoked == Count("createStore") + Count("server") + Count("afterSetup")
Completed == Count("migrate.ok") + Count("server.ok") + Count("afterSetup.ok")

\* setUp is pending exactly while one collaborator call is outstanding, runs
\* no later step meanwhile, and has settled only when every call it made has
\* resolved or one has rejected
SettlesWithCollaborators ==
    InSetUp =>
        /\ ~Done =>
               /\ result.status = "pending"
               /\ Invoked = Completed + 1
               /\ Count("reject") = 0
        /\ pc \in {"awaitGetClient", "awaitMigrate"} =>
               (Count("server") = 0 /\ Count("afterSetup") = 0)
        /\ pc = "awaitServer" => Count("afterSetup") = 0
        /\ Done =>
               /\ result.status \in {"resolved", "rejected"}
               /\ Invoked = Completed + Count("reject")

\* C17: setUp is pending as long as a collaborator it awaits has not settled
\* and runs no later step meanwhile; when every collaborator it awaits
\* settles, setUp settles.
C17_SetUpSettles ==
    /\ []SettlesWithCollaborators
    /\ (InSetUp /\ ~Done) ~> (InSetUp /\ Done)

C17_Witness ==
    /\ SetUpResolved
    /\ cfg.database
    /\ Count("afterSetup.ok") = 1
    /\ Invoked = 3

\* C18 as stated: over any sequence of setUp and destroy calls the destroy
\* operation of a database handle is invoked at most once.
C18_DestroyedAtMostOnce ==
    \A h \in 1..Len(databases) : databases[h].destroys <= 1

\* C19 as stated: the database in the Server Context given to the post-setup
\* callback is the optionalDatabase given to the server factory in the same
\* setUp: the handle this call created when the configuration has a database
\* spec, none otherwise.
C19_ContextDatabaseIsOptionalDatabase ==
    (InSetUp /\ context.given) =>
        /\ options.given
        /\ context.database = options.optionalDatabase
        /\ cfg.database => context.database = trace[Pos("storeDatabase")].h
        /\ ~cfg.database => context.database = Unset

====
